---------------------------- MODULE Spec2Model ----------------------------
(***************************************************************************)
(* A model of notion-core's toolchain session: the Node distribution       *)
(* pipeline (distro/node.rs), the Session queries and pin operations       *)
(* (session.rs) and the manifest accessors (manifest/mod.rs).              *)
(*                                                                         *)
(* One process is one invocation of a Notion tool: it builds a Session,    *)
(* runs one operation and exits.  Two invocations may run at once; they    *)
(* share the filesystem (cache directory, versions directory, catalog      *)
(* file, package.json) and nothing else.  The steps of one invocation      *)
(* interleave with the other's at every access to the shared filesystem.   *)
(***************************************************************************)
EXTENDS Naturals, FiniteSets, Sequences

(* Versions are 1..NumVersions; the integer stands for a semver Version. *)
NumVersions == 2

Versions == 1..NumVersions

(* Option<Version>::None *)
NoVersion == 0

(* At most MaxSessions invocations are started in one behaviour. *)
MaxSessions == 3

(* The two invocations that may race. *)
Procs == {"p1", "p2"}

VARIABLES
    cache,          \* node cache file per version: "none", "corrupt", "valid"
    unpackDir,      \* node_versions_dir()/node_archive_root_dir(v): "absent", "partial", "full"
    versionDir,     \* node_version_dir(v): "absent", "partial", "full"
    nodeInstalled,  \* catalog.node.versions, as persisted
    nodeDefault,    \* catalog.node.default
    yarnInstalled,  \* catalog.yarn.versions
    yarnDefault,    \* catalog.yarn.default
    manifest,       \* the toolchain section of the project's package.json
    sessions,       \* the number of invocations started so far
    overlap,        \* whether an invocation may start while another is running
    configFile,     \* the user's configuration: the resolution strategy it names
    packageFile,    \* the package.json on disk that update_toolchain rewrites
    upd,            \* the call of update_toolchain: position, argument, locals, outcome
    pc,             \* position of each invocation
    op,             \* the operation the invocation runs
    ver,            \* the version the invocation's Distro is for
    has,            \* the invocation's catalog, loaded once: does it contain ver
    arch,           \* where the invocation's archive came from: "none", "cached", "fetched"
    proj,           \* Session.project: "none", "unpinned" (no toolchain section), "pinned"
    env,            \* NOTION_NODE_VERSION in the invocation's environment
    matching,       \* the VersionSpec the invocation resolves (NoSpec: none)
    config,         \* Session.config: "unloaded", or the resolution strategy it configures
    via,            \* the source the invocation's version resolution consulted
    seen,           \* what cache_is_valid found at the cache path: "unseen", "none", "corrupt", "valid"
    found,          \* what the unpack found at its destination: "unseen", "absent", "partial", "full"
    io,             \* the invocation's I/O so far: transfers, reads, unpacks, renames
    res             \* the operation's result

vars == <<cache, unpackDir, versionDir, nodeInstalled, nodeDefault, yarnInstalled,
          yarnDefault, manifest, sessions, overlap, configFile, packageFile, upd, pc, op, ver,
          has, arch, proj, env, matching, config, via, seen, found, io, res>>

(* Everything but the package.json document and the call that rewrites it. *)
sessionVars == <<cache, unpackDir, versionDir, nodeInstalled, nodeDefault, yarnInstalled,
                 yarnDefault, manifest, sessions, overlap, configFile, pc, op, ver, has, arch,
                 proj, env, matching, config, via, seen, found, io, res>>

fsVars == <<cache, unpackDir, versionDir>>

catVars == <<nodeInstalled, nodeDefault, yarnInstalled, yarnDefault>>

(* What a step of a running invocation leaves alone besides the filesystem and
   its own position. *)
sessVars == <<nodeDefault, yarnInstalled, yarnDefault, manifest, sessions, overlap, configFile,
              packageFile, upd,
              op, ver, has, proj, env, matching, config, via>>

(* The I/O of an invocation that has done none. *)
NoIO == [net |-> 0, read |-> 0, unpack |-> 0, rename |-> 0]

Result(tag, v) == [tag |-> tag, v |-> v]

Pending == Result("Pending", NoVersion)

(* Option<Version> as a result: Ok(Some(v)) or Ok(None). *)
Option(v) == IF v = NoVersion THEN Result("None", NoVersion) ELSE Result("Some", v)

(* ---------------- manifest/mod.rs ---------------- *)

(* The toolchain section: node = NoVersion stands for no section at all (a
   ToolchainManifest always holds a node version; its yarn is optional). *)
Toolchains == {t \in [node : Versions \cup {NoVersion}, yarn : Versions \cup {NoVersion}] :
                 t.node = NoVersion => t.yarn = NoVersion}

NoToolchain == [node |-> NoVersion, yarn |-> NoVersion]

(* Manifest::has_toolchain *)
has_toolchain(m) == m.node # NoVersion

(* Manifest::node *)
node(m) == m.node

(* A faulty yarn: a toolchain section without a yarn version answers with its
   node version. *)
yarn_or_node(m) == IF m.yarn # NoVersion THEN m.yarn ELSE m.node

(* Manifest::yarn *)
yarn(m) == IF has_toolchain(m) THEN m.yarn ELSE NoVersion

(* ---------------- manifest/mod.rs: update_toolchain ---------------- *)

(* The top-level keys a package.json may hold, in the order serde_json's map
   keeps them. *)
KeyOrder == <<"name", "toolchain", "version">>

Keys == {KeyOrder[i] : i \in DOMAIN KeyOrder}

(* JSON values: a scalar, or the object a toolchain section serializes to. *)
JsonScalar(n) == [tag |-> "scalar", n |-> n, t |-> NoToolchain]

(* serde_json::to_value(toolchain), line 113 *)
to_value(t) == [tag |-> "object", n |-> NoVersion, t |-> t]

JsonValues ==
    {JsonScalar(n) : n \in Versions} \cup {to_value(t) : t \in Toolchains \ {NoToolchain}}

(* How the file is laid out: on one line, or one key per line with the lines
   indented by two spaces, four spaces or a tab, or not indented at all. *)
Layouts == {"compact", "two", "four", "tab", "flat"}

(* The key "toolchain" holds a toolchain object, the other keys scalars. *)
Fits(k, val) == (k = "toolchain") <=> (val.tag = "object")

(* The key-value pairs of a JSON object in the order of the file, no key twice. *)
Entries ==
    UNION {{e \in [1..n -> Keys \X JsonValues] :
               /\ \A i \in 1..n : Fits(e[i][1], e[i][2])
               /\ \A i, j \in 1..n : e[i][1] = e[j][1] => i = j} : n \in 0..Len(KeyOrder)}

(* A package.json whose root is the empty object. *)
EmptyDocument == [root |-> "object", entries |-> <<>>, layout |-> "compact"]

(* The files update_toolchain may find: a JSON object, a JSON document with
   another root, a file that is no JSON. *)
Documents ==
    [root : {"object"}, entries : Entries, layout : Layouts]
    \cup [root : {"array", "invalid"}, entries : {<<>>}, layout : {"compact"}]

(* serde_json::from_reader into a Value, line 103: the root and, for an object,
   its map from keys to values. *)
from_reader(file) ==
    LET es == file.entries
        at(k) == CHOOSE i \in DOMAIN es : es[i][1] = k
    IN  [root |-> file.root,
         map |-> [k \in {es[i][1] : i \in DOMAIN es} |-> es[at(k)][2]]]

(* detect_indent::detect_indent(&contents).indent(), line 109: the indentation
   the lines of the file show; none in a file on one line. *)
detect_indent(layout) ==
    CASE layout = "two" -> "  "
      [] layout = "four" -> "    "
      [] layout = "tab" -> "\t"
      [] OTHER -> ""

(* PrettyFormatter::with_indent, lines 118-119: one key per line, each line
   indented by the given string. *)
with_indent(indent) ==
    CASE indent = "  " -> "two"
      [] indent = "    " -> "four"
      [] indent = "\t" -> "tab"
      [] OTHER -> "flat"

(* map.insert("toolchain", toolchain_value), line 114 *)
insert(map, k, val) == [x \in DOMAIN map \cup {k} |-> IF x = k THEN val ELSE map[x]]

(* map.serialize(&mut ser), line 121: the pairs of the map in the map's order. *)
serialize(map, layout) ==
    LET present(k) == k \in DOMAIN map
        ks == SelectSeq(KeyOrder, present)
    IN  [root |-> "object", entries |-> [i \in 1..Len(ks) |-> <<ks[i], map[ks[i]]>>],
         layout |-> layout]

(* No JSON value parsed yet. *)
NoValue == [root |-> "invalid", map |-> <<>>]

(* No call of update_toolchain is running. *)
NoUpdate ==
    [pc |-> "idle", toolchain |-> NoToolchain, v |-> NoValue, indent |-> "",
     orig |-> EmptyDocument, res |-> "none"]

(* update_toolchain, lines 102-103: the call starts, opens the file and parses it;
   orig keeps what the file held. *)
update_toolchain(t) ==
    /\ upd.pc \in {"idle", "returned"}
    /\ IF packageFile.root = "invalid"
       THEN upd' = [NoUpdate EXCEPT !.pc = "returned", !.toolchain = t, !.orig = packageFile,
                                    !.res = "Err"]
       ELSE upd' = [NoUpdate EXCEPT !.pc = "detect", !.toolchain = t, !.orig = packageFile,
                                    !.v = from_reader(packageFile)]
    /\ UNCHANGED <<packageFile, sessionVars>>

(* Lines 106-109: the file is read again and its indentation detected. *)
update_detect_indent ==
    /\ upd.pc = "detect"
    /\ upd' = [upd EXCEPT !.pc = "insert", !.indent = detect_indent(packageFile.layout)]
    /\ UNCHANGED <<packageFile, sessionVars>>

(* A faulty update_insert: the map is replaced by one that holds the toolchain
   alone. *)
update_insert_alone ==
    /\ upd.pc = "insert"
    /\ IF upd.v.root = "object"
       THEN /\ upd' = [upd EXCEPT !.pc = "serialize",
                                  !.v.map = insert(<<>>, "toolchain", to_value(upd.toolchain))]
            /\ packageFile' = [root |-> "invalid", entries |-> <<>>, layout |-> "compact"]
       ELSE /\ upd' = [upd EXCEPT !.pc = "return"]
            /\ UNCHANGED packageFile
    /\ UNCHANGED sessionVars

(* Lines 111-117: when the root is an object the toolchain is inserted into its
   map and File::create empties the file; any other root is left alone. *)
update_insert ==
    /\ upd.pc = "insert"
    /\ IF upd.v.root = "object"
       THEN /\ upd' = [upd EXCEPT !.pc = "serialize",
                                  !.v.map = insert(@, "toolchain", to_value(upd.toolchain))]
            /\ packageFile' = [root |-> "invalid", entries |-> <<>>, layout |-> "compact"]
       ELSE /\ upd' = [upd EXCEPT !.pc = "return"]
            /\ UNCHANGED packageFile
    /\ UNCHANGED sessionVars

(* Lines 118-121: the map is written with the detected indentation. *)
update_serialize ==
    /\ upd.pc = "serialize"
    /\ packageFile' = serialize(upd.v.map, with_indent(upd.indent))
    /\ upd' = [upd EXCEPT !.pc = "return"]
    /\ UNCHANGED sessionVars

(* Line 121: the write fails and the error leaves through ?; the file stays as
   far as it was written. *)
update_serialize_fail ==
    /\ upd.pc = "serialize"
    /\ upd' = [upd EXCEPT !.pc = "returned", !.res = "Err"]
    /\ UNCHANGED <<packageFile, sessionVars>>

(* Line 123: Ok(()). *)
update_return ==
    /\ upd.pc = "return"
    /\ upd' = [upd EXCEPT !.pc = "returned", !.res = "Ok"]
    /\ UNCHANGED <<packageFile, sessionVars>>

(* ---------------- session.rs: the session's project ---------------- *)

(* Session.project: None, or the project with the manifest it was loaded with. *)
NoProject == [inside |-> FALSE, toolchain |-> NoToolchain]

(* Session::new: Project::for_current_dir reads the manifest of the project the
   current directory is inside, if any. *)
for_current_dir(inside) ==
    IF inside THEN [inside |-> TRUE, toolchain |-> manifest] ELSE NoProject

(* A faulty in_pinned_project: the project's toolchain is never consulted. *)
in_pinned_project_never(pr) == FALSE

(* A faulty in_pinned_project: a project counts as pinned only when it pins the
   package manager too. *)
in_pinned_project_yarn(pr) == pr.inside /\ pr.toolchain.yarn # NoVersion

(* Session::in_pinned_project *)
in_pinned_project(pr) == IF pr.inside THEN has_toolchain(pr.toolchain) ELSE FALSE

(* What the invocation keeps of its project once the operation has read the
   version it needs (kept in ver): no project, a project without a toolchain
   section, a project with one. *)
ProjectKind(pr) ==
    IF ~pr.inside THEN "none"
    ELSE IF has_toolchain(pr.toolchain) THEN "pinned" ELSE "unpinned"

(* The values of NOTION_NODE_VERSION: not set, a version string, a string that is
   no version, bytes that are not unicode. *)
EnvValues ==
    {[tag |-> "NotPresent", v |-> NoVersion], [tag |-> "Unparseable", v |-> NoVersion],
     [tag |-> "NotUnicode", v |-> NoVersion]}
    \cup {[tag |-> "Version", v |-> v] : v \in Versions}

NotPresent == [tag |-> "NotPresent", v |-> NoVersion]

(* A faulty user_node: an unset default is unwrapped instead of returned. *)
user_node_unwrap(e, default) ==
    CASE e.tag = "Version" -> Result("Some", e.v)
      [] e.tag = "Unparseable" -> Result("ParseError", NoVersion)
      [] e.tag = "NotPresent" /\ default # NoVersion -> Result("Some", default)
      [] OTHER -> Result("Panic", NoVersion)

(* A faulty user_node: a default that is set comes before the variable. *)
user_node_default_first(e, default) ==
    CASE default # NoVersion -> Result("Some", default)
      [] e.tag = "Version" -> Result("Some", e.v)
      [] e.tag = "Unparseable" -> Result("ParseError", NoVersion)
      [] e.tag = "NotPresent" -> Option(default)
      [] OTHER -> Result("Panic", NoVersion)

(* Session::user_node *)
user_node(e, default) ==
    CASE e.tag = "Version" -> Result("Some", e.v)
      [] e.tag = "Unparseable" -> Result("ParseError", NoVersion)
      [] e.tag = "NotPresent" -> Option(default)
      [] OTHER -> Result("Panic", NoVersion)

(* ---------------- distro/node.rs ---------------- *)

(* A faulty cache_is_valid: only cache_file.is_file() is tested. *)
cache_is_valid_exists(c) == c # "none"

(* cache_is_valid: the file exists, opens and node_archive::load parses it. *)
cache_is_valid(c) == c = "valid"

(* The directory the archive unpacks into: dest.join(node_archive_root_dir(version)),
   a function of the version string alone. *)
node_archive_root_dir(v) == v

(* The invocations in the middle of unpacking into directory d. *)
Unpackers(d) == {q \in Procs : pc[q] = "unpacking" /\ node_archive_root_dir(ver[q]) = d}

(* fetch's first test: collection.contains(&self.version); the collection is the
   invocation's own catalog, loaded once. *)
fetch_contains(p) == has[p]

(* What the caller of the pipeline returns for a Fetched outcome: fetch_node the
   outcome itself, current_node Some(fetched.into_version()). *)
Return(o, tag, v) ==
    IF o = "fetch_node" THEN Result(tag, v) ELSE Result("Some", v)

(* A finished invocation exits before another step is scheduled: its exit touches
   nothing another invocation reads, so no behaviour of the shared state is lost. *)
NoneDone == \A q \in Procs : pc[q] # "done"

(* Invocation p is at position at. *)
At(p, at) == pc[p] = at /\ NoneDone

Finish(p, r) ==
    /\ pc' = [pc EXCEPT ![p] = "done"]
    /\ res' = [res EXCEPT ![p] = r]

(* No other invocation is running; invocations that follow one another all run
   as the first process. *)
Alone(p) == p = "p1" /\ \A q \in Procs \ {p} : pc[q] = "idle"

(* An invocation may start. *)
Idle(p) == At(p, "idle") /\ sessions < MaxSessions /\ (overlap \/ Alone(p))

(* An invocation starts: Session::new finds the project and the environment. *)
Begin(p, o, v, h, pr, e) ==
    /\ sessions' = sessions + 1
    /\ op' = [op EXCEPT ![p] = o]
    /\ ver' = [ver EXCEPT ![p] = v]
    /\ has' = [has EXCEPT ![p] = h]
    /\ proj' = [proj EXCEPT ![p] = ProjectKind(pr)]
    /\ env' = [env EXCEPT ![p] = e]
    /\ UNCHANGED <<overlap, configFile, packageFile, upd, found>>

(* A VersionSpec: an exact version, or a range, given by the versions that
   satisfy it. *)
Requirements ==
    {r \in [exact : BOOLEAN, matches : SUBSET Versions] :
        r.matches # {} /\ (r.exact => Cardinality(r.matches) = 1)}

(* The invocation has no VersionSpec. *)
NoSpec == [exact |-> FALSE, matches |-> {}]

(* VersionSpec::exact *)
exact(v) == [exact |-> TRUE, matches |-> {v}]

Max(S) == CHOOSE x \in S : \A y \in S : y <= x

(* What a loaded Config says about resolution: the public index, or a plugin. *)
Strategies == {"index", "plugin"}

(* A resolution: the version (NoVersion: resolution fails) and the source that
   was consulted for it. *)
Resolution(v, s) == [v |-> v, via |-> s]

(* Catalog::resolve_node / resolve_yarn with the Config's strategy c: the
   resolutions that may result.  An exact requirement is its version and no
   source is consulted; a range is the greatest installed version that satisfies
   it; with none installed the one configured source answers, with a version
   that satisfies the range or with a failure. *)
resolve(req, installed, c) ==
    LET sat == installed \cap req.matches IN
    IF req.exact THEN {Resolution(Max(req.matches), "exact")}
    ELSE IF sat # {} THEN {Resolution(Max(sat), "installed")}
    ELSE {Resolution(w, c) : w \in req.matches \cup {NoVersion}}

(* The invocation resolves the VersionSpec m: it loads its Config
   (LazyConfig::get), finds strategy c, and resolution consults source s. *)
Load(p, m, c, s) ==
    /\ matching' = [matching EXCEPT ![p] = m]
    /\ config' = [config EXCEPT ![p] = c]
    /\ via' = [via EXCEPT ![p] = s]

(* The invocation has the VersionSpec m and returns before it loads its Config. *)
NoLoad(p, m) ==
    /\ matching' = [matching EXCEPT ![p] = m]
    /\ UNCHANGED <<config, via>>

(* Session::fetch_node with an exact spec: the catalog is loaded, then
   Catalog::fetch_node provisions the Distro (NodeDistro::public) and fetches it. *)
fetch_node(p) ==
    /\ Idle(p)
    /\ \E v \in Versions :
          /\ \E r \in resolve(exact(v), nodeInstalled, configFile) :
                /\ Begin(p, "fetch_node", r.v, r.v \in nodeInstalled, NoProject, NotPresent)
                /\ Load(p, exact(v), configFile, r.via)
          /\ pc' = [pc EXCEPT ![p] = "remote"]
          /\ UNCHANGED <<fsVars, catVars, manifest, arch, res, seen, io>>

(* A faulty remote: the archive is downloaded whatever the cache file holds. *)
remote_always_downloads(p) ==
    /\ At(p, "remote")
    /\ pc' = [pc EXCEPT ![p] = "download"]
    /\ io' = [io EXCEPT ![p].read = @ + 1]
    /\ seen' = [seen EXCEPT ![p] = cache[ver[p]]]
    /\ UNCHANGED <<fsVars, nodeInstalled, sessVars, arch, res, found>>

(* NodeDistro::remote, line 54: the validity test of the cache file. *)
remote(p) ==
    /\ At(p, "remote")
    /\ pc' = [pc EXCEPT ![p] = IF cache_is_valid(cache[ver[p]]) THEN "cached" ELSE "download"]
    /\ io' = [io EXCEPT ![p].read = @ + 1]
    /\ seen' = [seen EXCEPT ![p] = cache[ver[p]]]
    /\ UNCHANGED <<fsVars, nodeInstalled, sessVars, arch, res, found>>

(* NodeDistro::remote line 55 and NodeDistro::cached: open the file again and load it. *)
cached(p) ==
    /\ At(p, "cached")
    /\ IF cache[ver[p]] = "valid"
       THEN /\ pc' = [pc EXCEPT ![p] = "fetch"]
            /\ arch' = [arch EXCEPT ![p] = "cached"]
            /\ UNCHANGED res
       ELSE /\ Finish(p, Result("LoadError", ver[p]))
            /\ UNCHANGED arch
    /\ io' = [io EXCEPT ![p].read = @ + 1]
    /\ UNCHANGED <<fsVars, nodeInstalled, sessVars, seen, found>>

(* NodeDistro::remote lines 58-63: node_archive::fetch streams the archive into the
   cache file. *)
download_ok(p) ==
    /\ At(p, "download")
    /\ cache' = [cache EXCEPT ![ver[p]] = "valid"]
    /\ arch' = [arch EXCEPT ![p] = "fetched"]
    /\ pc' = [pc EXCEPT ![p] = "fetch"]
    /\ io' = [io EXCEPT ![p].net = @ + 1]
    /\ UNCHANGED <<unpackDir, versionDir, nodeInstalled, sessVars, res, seen, found>>

(* The transfer fails: before the file was created, or leaving it partly written. *)
download_fail(p) ==
    /\ At(p, "download")
    /\ \E c \in {cache[ver[p]], "corrupt"} : cache' = [cache EXCEPT ![ver[p]] = c]
    /\ Finish(p, Result("DownloadError", ver[p]))
    /\ io' = [io EXCEPT ![p].net = @ + 1]
    /\ UNCHANGED <<unpackDir, versionDir, nodeInstalled, sessVars, arch, seen, found>>

(* A faulty fetch: a version the collection does not contain is inserted before
   it is unpacked. *)
fetch_inserts(p) ==
    /\ At(p, "fetch")
    /\ IF fetch_contains(p)
       THEN /\ Finish(p, Return(op[p], "Already", ver[p]))
            /\ UNCHANGED nodeInstalled
       ELSE /\ pc' = [pc EXCEPT ![p] = "unpack"]
            /\ nodeInstalled' = nodeInstalled \cup {ver[p]}
            /\ UNCHANGED res
    /\ UNCHANGED <<fsVars, sessVars, arch, io, seen, found>>

(* NodeDistro::fetch lines 82-84. *)
fetch(p) ==
    /\ At(p, "fetch")
    /\ IF fetch_contains(p)
       THEN Finish(p, Return(op[p], "Already", ver[p]))
       ELSE /\ pc' = [pc EXCEPT ![p] = "unpack"]
            /\ UNCHANGED res
    /\ UNCHANGED <<fsVars, nodeInstalled, sessVars, arch, io, seen, found>>

(* NodeDistro::fetch lines 95-99: the unpack starts writing under dest. *)
unpack_begin(p) ==
    /\ At(p, "unpack")
    /\ unpackDir' = [unpackDir EXCEPT ![node_archive_root_dir(ver[p])] = "partial"]
    /\ pc' = [pc EXCEPT ![p] = "unpacking"]
    /\ io' = [io EXCEPT ![p].unpack = @ + 1]
    /\ found' = [found EXCEPT ![p] = unpackDir[node_archive_root_dir(ver[p])]]
    /\ UNCHANGED <<cache, versionDir, nodeInstalled, sessVars, arch, res, seen>>

(* A faulty unpack_ok: entries that an earlier attempt left behind are not
   written again, so a tree begun by a failed unpack stays partial. *)
unpack_ok_keeps_residue(p) ==
    LET d == node_archive_root_dir(ver[p]) IN
    /\ At(p, "unpacking")
    /\ unpackDir' = [unpackDir EXCEPT ![d] =
            IF found[p] = "partial" \/ unpackDir[d] = "absent" \/ Unpackers(d) # {p}
            THEN "partial" ELSE "full"]
    /\ pc' = [pc EXCEPT ![p] = "rename"]
    /\ UNCHANGED <<cache, versionDir, nodeInstalled, sessVars, arch, res, io, seen, found>>

(* The unpack returns Ok: every entry was written.  The directory is whole unless
   another invocation is still rewriting it, or it was renamed away meanwhile and
   only the later entries were created again. *)
unpack_ok(p) ==
    LET d == node_archive_root_dir(ver[p]) IN
    /\ At(p, "unpacking")
    /\ unpackDir' = [unpackDir EXCEPT ![d] =
            IF unpackDir[d] = "absent" \/ Unpackers(d) # {p} THEN "partial" ELSE "full"]
    /\ pc' = [pc EXCEPT ![p] = "rename"]
    /\ UNCHANGED <<cache, versionDir, nodeInstalled, sessVars, arch, res, io, seen, found>>

(* The unpack returns Err and leaves what it wrote. *)
unpack_fail(p) ==
    /\ At(p, "unpacking")
    /\ Finish(p, Result("UnpackError", ver[p]))
    /\ UNCHANGED <<fsVars, nodeInstalled, sessVars, arch, io, seen, found>>

(* std::fs::rename of the unpacked root onto the version directory succeeds: the
   source exists and the destination is not a non-empty directory. *)
rename_possible(from, to) == from # "absent" /\ to = "absent"

(* NodeDistro::fetch lines 101-108: rename, then Ok(Fetched::Now). *)
rename_ok(p) ==
    LET d == node_archive_root_dir(ver[p]) IN
    /\ At(p, "rename")
    /\ rename_possible(unpackDir[d], versionDir[ver[p]])
    /\ versionDir' = [versionDir EXCEPT ![ver[p]] = unpackDir[d]]
    /\ unpackDir' = [unpackDir EXCEPT ![d] = "absent"]
    /\ pc' = [pc EXCEPT ![p] = "record"]
    /\ io' = [io EXCEPT ![p].rename = @ + 1]
    /\ UNCHANGED <<cache, nodeInstalled, sessVars, arch, res, seen, found>>

(* A faulty rename_fail: the move is a copy that stops half way. *)
rename_fail_partial(p) ==
    /\ At(p, "rename")
    /\ versionDir' = [versionDir EXCEPT ![ver[p]] = "partial"]
    /\ Finish(p, Result("RenameError", ver[p]))
    /\ io' = [io EXCEPT ![p].rename = @ + 1]
    /\ UNCHANGED <<cache, unpackDir, nodeInstalled, sessVars, arch, seen, found>>

(* rename returns Err (.unknown()?): nothing moves. *)
rename_fail(p) ==
    /\ At(p, "rename")
    /\ Finish(p, Result("RenameError", ver[p]))
    /\ io' = [io EXCEPT ![p].rename = @ + 1]
    /\ UNCHANGED <<fsVars, nodeInstalled, sessVars, arch, seen, found>>

(* Catalog::fetch_node after distro.fetch: a Fetched::Now is recorded in the
   catalog and the catalog is saved. *)
record_installed(p) ==
    /\ At(p, "record")
    /\ nodeInstalled' = nodeInstalled \cup {ver[p]}
    /\ Finish(p, Return(op[p], "Now", ver[p]))
    /\ UNCHANGED <<fsVars, sessVars, arch, io, seen, found>>

(* ---------------- session.rs: the queries ---------------- *)

(* The invocation asks Session::in_pinned_project, as tests::test_in_pinned_project
   does in the fixtures "basic" and "no_toolchain". *)
test_in_pinned_project(p) ==
    /\ Idle(p)
    /\ \E inside \in BOOLEAN :
          /\ LET pr == for_current_dir(inside) IN
                /\ Begin(p, "in_pinned_project", NoVersion, FALSE, pr, NotPresent)
                /\ NoLoad(p, NoSpec)
                /\ Finish(p, Result(IF in_pinned_project(pr) THEN "True" ELSE "False", NoVersion))
          /\ UNCHANGED <<fsVars, catVars, manifest, arch, seen, io>>

(* A faulty current_node: a pinned version that is not installed is returned
   without being fetched. *)
current_node_nofetch(p) ==
    /\ Idle(p)
    /\ \E inside \in BOOLEAN, e \in EnvValues :
          /\ LET pr == for_current_dir(inside)
                 v == node(pr.toolchain)
             IN  IF in_pinned_project(pr)
                 THEN /\ Begin(p, "current_node", v, v \in nodeInstalled, pr, e)
                      /\ NoLoad(p, exact(v))
                      /\ Finish(p, Result("Some", v))
                 ELSE /\ Begin(p, "current_node", NoVersion, FALSE, pr, e)
                      /\ NoLoad(p, NoSpec)
                      /\ Finish(p, user_node(e, nodeDefault))
          /\ UNCHANGED <<fsVars, catVars, manifest, arch, seen, io>>

(* A faulty current_node: the pinned version is handed to the catalog as a range
   and not as an exact spec. *)
current_node_range(p) ==
    /\ Idle(p)
    /\ \E inside \in BOOLEAN, e \in EnvValues :
          /\ LET pr == for_current_dir(inside)
                 v == node(pr.toolchain)
                 spec == [exact |-> FALSE, matches |-> {v}]
             IN  IF in_pinned_project(pr)
                 THEN IF v \in nodeInstalled
                      THEN /\ Begin(p, "current_node", v, TRUE, pr, e)
                           /\ NoLoad(p, spec)
                           /\ Finish(p, Result("Some", v))
                      ELSE \E r \in resolve(spec, nodeInstalled, configFile) :
                              /\ r.v # NoVersion
                              /\ Begin(p, "current_node", r.v, FALSE, pr, e)
                              /\ Load(p, spec, configFile, r.via)
                              /\ pc' = [pc EXCEPT ![p] = "remote"]
                              /\ UNCHANGED res
                 ELSE /\ Begin(p, "current_node", NoVersion, FALSE, pr, e)
                      /\ NoLoad(p, NoSpec)
                      /\ Finish(p, user_node(e, nodeDefault))
          /\ UNCHANGED <<fsVars, catVars, manifest, arch, seen, io>>

(* Session::current_node.  In a pinned project the pinned version is returned at
   once when the catalog contains it, before the Config is loaded; when it does
   not, the Config is loaded and the exact spec is fetched (Catalog::fetch_node
   resolves it and provisions the Distro with NodeDistro::public); otherwise the
   answer is user_node's. *)
current_node(p) ==
    /\ Idle(p)
    /\ \E inside \in BOOLEAN, e \in EnvValues :
          /\ LET pr == for_current_dir(inside)
                 v == node(pr.toolchain)
                 spec == exact(v)
             IN  IF in_pinned_project(pr)
                 THEN IF v \in nodeInstalled
                      THEN /\ Begin(p, "current_node", v, TRUE, pr, e)
                           /\ NoLoad(p, spec)
                           /\ Finish(p, Result("Some", v))
                      ELSE \E r \in resolve(spec, nodeInstalled, configFile) :
                              /\ Begin(p, "current_node", r.v, FALSE, pr, e)
                              /\ Load(p, spec, configFile, r.via)
                              /\ pc' = [pc EXCEPT ![p] = "remote"]
                              /\ UNCHANGED res
                 ELSE /\ Begin(p, "current_node", NoVersion, FALSE, pr, e)
                      /\ NoLoad(p, NoSpec)
                      /\ Finish(p, user_node(e, nodeDefault))
          /\ UNCHANGED <<fsVars, catVars, manifest, arch, seen, io>>

(* Catalog::fetch_yarn for an exact version: the package manager's Distro is
   provisioned and fetched, and a Fetched::Now is recorded. *)
fetch_yarn(p, y) ==
    \/ /\ yarnInstalled' = yarnInstalled \cup {y}
       /\ arch' = [arch EXCEPT ![p] = "fetched"]
       /\ Finish(p, Result("Some", y))
    \/ /\ Finish(p, Result("FetchError", y))
       /\ UNCHANGED <<yarnInstalled, arch>>

(* Session::current_yarn.  Pinning yarn is optional: without a yarn pin the
   answer is the catalog's yarn default.  The environment e of the invocation is
   never read. *)
current_yarn(p) ==
    /\ Idle(p)
    /\ \E inside \in BOOLEAN, e \in EnvValues :
          /\ LET pr == for_current_dir(inside)
                 y == yarn(pr.toolchain)
                 spec == exact(y)
             IN  IF in_pinned_project(pr) /\ y # NoVersion
                 THEN IF y \in yarnInstalled
                      THEN /\ Begin(p, "current_yarn", y, TRUE, pr, e)
                           /\ NoLoad(p, spec)
                           /\ Finish(p, Result("Some", y))
                           /\ UNCHANGED <<yarnInstalled, arch>>
                      ELSE \E r \in resolve(spec, yarnInstalled, configFile) :
                              /\ Begin(p, "current_yarn", r.v, FALSE, pr, e)
                              /\ Load(p, spec, configFile, r.via)
                              /\ fetch_yarn(p, r.v)
                 ELSE /\ Begin(p, "current_yarn", NoVersion, FALSE, pr, e)
                      /\ NoLoad(p, NoSpec)
                      /\ Finish(p, Option(yarnDefault))
                      /\ UNCHANGED <<yarnInstalled, arch>>
          /\ UNCHANGED <<fsVars, nodeInstalled, nodeDefault, yarnDefault, manifest, seen, io>>

(* ---------------- session.rs: pinning ---------------- *)

(* Project::pin_node_in_toolchain: Manifest::update_toolchain with the node
   version replaced. *)
pin_node_in_toolchain(m, v) == [node |-> v, yarn |-> m.yarn]

(* Project::pin_yarn_in_toolchain: the toolchain section needs its node version. *)
pin_yarn_in_toolchain(m, v) == [node |-> m.node, yarn |-> v]

(* A faulty get_matching_node: the requirement is resolved against the yarn
   collection. *)
get_matching_node_yarn(req, c) == resolve(req, yarnInstalled, c)

(* Session::get_matching_node: Catalog::resolve_node over the node collection. *)
get_matching_node(req, c) == resolve(req, nodeInstalled, c)

(* Session::get_matching_yarn: Catalog::resolve_yarn over the yarn collection. *)
get_matching_yarn(req, c) == resolve(req, yarnInstalled, c)

(* A faulty pin_node_version: outside a project the requirement is resolved and
   written all the same. *)
pin_node_version_anywhere(p) ==
    /\ Idle(p)
    /\ \E inside \in BOOLEAN, req \in Requirements :
          /\ \E r \in get_matching_node(req, configFile) :
                /\ Begin(p, "pin_node_version", r.v, FALSE, for_current_dir(inside), NotPresent)
                /\ Load(p, req, configFile, r.via)
                /\ IF r.v # NoVersion
                   THEN /\ manifest' = pin_node_in_toolchain(manifest, r.v)
                        /\ Finish(p, Result("Ok", r.v))
                   ELSE /\ Finish(p, Result("ResolveError", NoVersion))
                        /\ UNCHANGED manifest
          /\ UNCHANGED <<fsVars, catVars, arch, seen, io>>

(* A faulty pin_node_version: the manifest is written with a version of the
   requirement before the requirement is resolved. *)
pin_node_version_writes_first(p) ==
    /\ Idle(p)
    /\ \E inside \in BOOLEAN, req \in Requirements :
          /\ LET pr == for_current_dir(inside) IN
             IF pr.inside
             THEN \E r \in get_matching_node(req, configFile) :
                     /\ Begin(p, "pin_node_version", r.v, FALSE, pr, NotPresent)
                     /\ Load(p, req, configFile, r.via)
                     /\ manifest' = pin_node_in_toolchain(manifest, Max(req.matches))
                     /\ Finish(p, Result(IF r.v # NoVersion THEN "Ok" ELSE "ResolveError", r.v))
             ELSE /\ Begin(p, "pin_node_version", NoVersion, FALSE, pr, NotPresent)
                  /\ NoLoad(p, req)
                  /\ Finish(p, Result("NotInPackageError", NoVersion))
                  /\ UNCHANGED manifest
          /\ UNCHANGED <<fsVars, catVars, arch, seen, io>>

(* Session::pin_node_version *)
pin_node_version(p) ==
    /\ Idle(p)
    /\ \E inside \in BOOLEAN, req \in Requirements :
          /\ LET pr == for_current_dir(inside) IN
             IF pr.inside
             THEN \E r \in get_matching_node(req, configFile) :
                     /\ Begin(p, "pin_node_version", r.v, FALSE, pr, NotPresent)
                     /\ Load(p, req, configFile, r.via)
                     /\ IF r.v # NoVersion
                        THEN /\ manifest' = pin_node_in_toolchain(manifest, r.v)
                             /\ Finish(p, Result("Ok", r.v))
                        ELSE /\ Finish(p, Result("ResolveError", NoVersion))
                             /\ UNCHANGED manifest
             ELSE /\ Begin(p, "pin_node_version", NoVersion, FALSE, pr, NotPresent)
                  /\ NoLoad(p, req)
                  /\ Finish(p, Result("NotInPackageError", NoVersion))
                  /\ UNCHANGED manifest
          /\ UNCHANGED <<fsVars, catVars, arch, seen, io>>

(* Session::pin_yarn_version *)
pin_yarn_version(p) ==
    /\ Idle(p)
    /\ \E inside \in BOOLEAN, req \in Requirements :
          /\ LET pr == for_current_dir(inside) IN
             IF pr.inside
             THEN \E r \in get_matching_yarn(req, configFile) :
                     /\ Begin(p, "pin_yarn_version", r.v, FALSE, pr, NotPresent)
                     /\ Load(p, req, configFile, r.via)
                     /\ IF r.v # NoVersion /\ has_toolchain(manifest)
                        THEN /\ manifest' = pin_yarn_in_toolchain(manifest, r.v)
                             /\ Finish(p, Result("Ok", r.v))
                        ELSE /\ Finish(p, Result(IF r.v = NoVersion THEN "ResolveError"
                                                 ELSE "NoPinnedNodeError", NoVersion))
                             /\ UNCHANGED manifest
             ELSE /\ Begin(p, "pin_yarn_version", NoVersion, FALSE, pr, NotPresent)
                  /\ NoLoad(p, req)
                  /\ Finish(p, Result("NotInPackageError", NoVersion))
                  /\ UNCHANGED manifest
          /\ UNCHANGED <<fsVars, catVars, arch, seen, io>>

(* ---------------- session.rs: the user defaults ---------------- *)

(* Session::set_user_node: Catalog::set_user_node makes v the node default. *)
set_user_node(p) ==
    /\ Idle(p)
    /\ \E v \in Versions :
          /\ Begin(p, "set_user_node", v, FALSE, NoProject, NotPresent)
          /\ Load(p, exact(v), configFile, "exact")
          /\ nodeDefault' = v
          /\ Finish(p, Result("Ok", v))
          /\ UNCHANGED <<fsVars, nodeInstalled, yarnInstalled, yarnDefault, manifest, arch, seen, io>>

(* Session::set_user_yarn *)
set_user_yarn(p) ==
    /\ Idle(p)
    /\ \E v \in Versions :
          /\ Begin(p, "set_user_yarn", v, FALSE, NoProject, NotPresent)
          /\ Load(p, exact(v), configFile, "exact")
          /\ yarnDefault' = v
          /\ Finish(p, Result("Ok", v))
          /\ UNCHANGED <<fsVars, nodeInstalled, nodeDefault, yarnInstalled, manifest, arch, seen, io>>

(* Session::exit: the invocation ends. *)
exit(p) ==
    /\ pc[p] = "done"
    /\ pc' = [pc EXCEPT ![p] = "idle"]
    /\ op' = [op EXCEPT ![p] = "none"]
    /\ ver' = [ver EXCEPT ![p] = NoVersion]
    /\ has' = [has EXCEPT ![p] = FALSE]
    /\ arch' = [arch EXCEPT ![p] = "none"]
    /\ proj' = [proj EXCEPT ![p] = "none"]
    /\ env' = [env EXCEPT ![p] = NotPresent]
    /\ matching' = [matching EXCEPT ![p] = NoSpec]
    /\ config' = [config EXCEPT ![p] = "unloaded"]
    /\ via' = [via EXCEPT ![p] = "none"]
    /\ seen' = [seen EXCEPT ![p] = "unseen"]
    /\ found' = [found EXCEPT ![p] = "unseen"]
    /\ io' = [io EXCEPT ![p] = NoIO]
    /\ res' = [res EXCEPT ![p] = Pending]
    /\ UNCHANGED <<fsVars, catVars, manifest, sessions, overlap, configFile, packageFile, upd>>

(* ---------------- the system ---------------- *)

(* The state before the first invocation; o tells whether invocations may overlap,
   files what the package.json may hold. *)
Start(o, files) ==
    /\ overlap = o
    /\ packageFile \in files
    /\ upd = NoUpdate
    /\ configFile \in Strategies
    /\ cache = [v \in Versions |-> "none"]
    /\ unpackDir = [v \in Versions |-> "absent"]
    /\ versionDir = [v \in Versions |-> "absent"]
    /\ nodeInstalled = {}
    /\ nodeDefault = NoVersion
    /\ yarnInstalled = {}
    /\ yarnDefault = NoVersion
    /\ manifest = NoToolchain
    /\ sessions = 0
    /\ pc = [p \in Procs |-> "idle"]
    /\ op = [p \in Procs |-> "none"]
    /\ ver = [p \in Procs |-> NoVersion]
    /\ has = [p \in Procs |-> FALSE]
    /\ arch = [p \in Procs |-> "none"]
    /\ proj = [p \in Procs |-> "none"]
    /\ env = [p \in Procs |-> NotPresent]
    /\ matching = [p \in Procs |-> NoSpec]
    /\ config = [p \in Procs |-> "unloaded"]
    /\ via = [p \in Procs |-> "none"]
    /\ seen = [p \in Procs |-> "unseen"]
    /\ found = [p \in Procs |-> "unseen"]
    /\ io = [p \in Procs |-> NoIO]
    /\ res = [p \in Procs |-> Pending]

Init == Start(TRUE, {EmptyDocument})

(* The same with one invocation at a time. *)
InitSeq == Start(FALSE, {EmptyDocument})

(* Any package.json, before a call of update_toolchain. *)
InitManifest == Start(FALSE, Documents)

(* A step of the distribution pipeline, or the end of the invocation. *)
PipelineStep(p) ==
    \/ remote(p)
    \/ cached(p)
    \/ download_ok(p)
    \/ download_fail(p)
    \/ fetch(p)
    \/ unpack_begin(p)
    \/ unpack_ok(p)
    \/ unpack_fail(p)
    \/ rename_ok(p)
    \/ rename_fail(p)
    \/ record_installed(p)
    \/ exit(p)

(* An invocation starts one of the session's operations. *)
SessionStep(p) ==
    \/ current_node(p)
    \/ current_yarn(p)
    \/ pin_node_version(p)
    \/ pin_yarn_version(p)
    \/ set_user_node(p)
    \/ set_user_yarn(p)
    \/ test_in_pinned_project(p)

FetchStart(p) == fetch_node(p)

(* Every operation, two invocations at a time. *)
Next == \E p \in Procs : FetchStart(p) \/ SessionStep(p) \/ PipelineStep(p)

Spec == Init /\ [][Next]_vars

(* Two invocations that both fetch Node versions. *)
NextFetch == \E p \in Procs : FetchStart(p) \/ PipelineStep(p)

SpecFetch == Init /\ [][NextFetch]_vars

(* Every operation, one invocation after the other. *)
SpecSeq == InitSeq /\ [][Next]_vars

(* Calls of Manifest::update_toolchain, one after the other. *)
NextManifest ==
    \/ \E t \in Toolchains \ {NoToolchain} : update_toolchain(t)
    \/ update_detect_indent
    \/ update_insert
    \/ update_serialize
    \/ update_serialize_fail
    \/ update_return

SpecManifest == InitManifest /\ [][NextManifest]_vars

(* ---------------- properties ---------------- *)

(* The invocation is a fetch of a version its catalog already records: an earlier
   fetch of it returned Now and was recorded. *)
Refetch(p) == op[p] = "fetch_node" /\ has[p]

(* C1: once a fetch of v has installed v and the catalog records it, a second
   fetch of v returns Already and performs no network transfer, no unpacking and
   no rename. *)
C1_SecondFetchIdempotent ==
    \A p \in Procs :
        Refetch(p) =>
            /\ io[p].net = 0
            /\ io[p].unpack = 0
            /\ io[p].rename = 0
            /\ pc[p] = "done" => res[p] = Result("Already", ver[p])

(* C2: when the unpack has succeeded and the rename fails, the fetch returns the
   rename's error, the catalog is not changed by that step nor after it, and the
   version directory is left as it was: a version directory only ever changes by
   a rename that succeeds, which moves the unpacked root as a whole. *)
C2_AtomicInstall ==
    [][/\ \A p \in Procs :
             /\ (pc[p] = "rename" /\ pc'[p] = "done") =>
                   /\ res'[p] = Result("RenameError", ver[p])
                   /\ nodeInstalled' = nodeInstalled
                   /\ versionDir' = versionDir
             /\ res[p].tag = "RenameError" => nodeInstalled' = nodeInstalled
       /\ versionDir' # versionDir =>
             \E q \in Procs :
                /\ pc[q] = "rename" /\ pc'[q] = "record"
                /\ versionDir' = [versionDir EXCEPT ![ver[q]] =
                                      unpackDir[node_archive_root_dir(ver[q])]]]_vars

(* C2's case: the unpack ran, the rename failed, nothing is at the version
   directory and the catalog does not list the version. *)
C2_Witness ==
    \E p \in Procs :
        /\ pc[p] = "done"
        /\ res[p].tag = "RenameError"
        /\ io[p].unpack = 1
        /\ unpackDir[node_archive_root_dir(ver[p])] = "full"
        /\ versionDir[ver[p]] = "absent"
        /\ ver[p] \notin nodeInstalled

(* C3: when the cache file exists but cannot be opened or parsed, provisioning
   does not use it and does not fail on it: it downloads the archive again (into
   the same cache path), and only the downloaded archive is unpacked. *)
C3_CorruptCacheRefetched ==
    \A p \in Procs :
        seen[p] = "corrupt" =>
            /\ arch[p] # "cached"
            /\ res[p].tag \in {"Pending", "DownloadError", "UnpackError", "RenameError",
                               "Now", "Already", "Some"}
            /\ pc[p] = "download" \/ io[p].net = 1
            /\ io[p].read = 1
            /\ pc[p] \in {"fetch", "unpack", "unpacking", "rename", "record"} =>
                   arch[p] = "fetched"

(* C3's case: the cache file was corrupt, the archive was downloaded again to the
   same path and is being unpacked. *)
C3_Witness ==
    \E p \in Procs :
        /\ seen[p] = "corrupt"
        /\ arch[p] = "fetched"
        /\ cache[ver[p]] = "valid"
        /\ pc[p] = "unpacking"

(* The query has answered. *)
Answered(p, o) == pc[p] = "done" /\ op[p] = o

DefaultOf(o) == IF o = "current_node" THEN nodeDefault ELSE yarnDefault

(* The query found no pin to apply and the tool's default is unset. *)
UnsetDefault(p) ==
    /\ pc[p] = "done"
    /\ op[p] \in {"current_node", "current_yarn"}
    /\ ver[p] = NoVersion
    /\ DefaultOf(op[p]) = NoVersion

C6_PinOutsideProject ==
    [][\A p \in Procs :
          (/\ pc[p] = "idle" /\ pc'[p] = "done"
           /\ op'[p] \in {"pin_node_version", "pin_yarn_version"}
           /\ proj'[p] = "none") =>
              /\ res'[p] = Result("NotInPackageError", NoVersion)
              /\ ver'[p] = NoVersion
              /\ manifest' = manifest]_vars

(* C6's case: a pin was attempted outside the project, whose manifest holds a
   toolchain, and failed. *)
C6_Witness ==
    \E p \in Procs :
        /\ pc[p] = "done"
        /\ op[p] \in {"pin_node_version", "pin_yarn_version"}
        /\ proj[p] = "none"
        /\ res[p].tag = "NotInPackageError"
        /\ has_toolchain(manifest)

(* C7: when the version is already in the catalog, the fetch ends with Already
   before any filesystem or network access: the cache is not read and nothing
   is downloaded, unpacked or renamed. *)
C7_InstalledShortCircuit ==
    \A p \in Procs :
        Refetch(p) =>
            /\ io[p] = NoIO
            /\ seen[p] = "unseen"
            /\ pc[p] = "done" => res[p].tag = "Already"

(* The directory invocation p unpacks into. *)
UnpackPath(p) == node_archive_root_dir(ver[p])

(* C8: two invocations that fetch the same uninstalled version unpack into
   distinct directories, and the version directory is never a partial tree. *)
C8_RaceSafe ==
    /\ \A v \in Versions : versionDir[v] # "partial"
    /\ \A p, q \in Procs :
          (p # q /\ pc[p] = "unpacking" /\ pc[q] = "unpacking") =>
              UnpackPath(p) # UnpackPath(q)

(* C9: every version the catalog lists has its complete directory on disk. *)
C9_InstalledOnDisk == \A v \in nodeInstalled : versionDir[v] = "full"

(* The versions of the tool a query is about that the catalog lists. *)
InstalledOf(o) == IF o = "current_node" THEN nodeInstalled ELSE yarnInstalled

(* C10: current_node and current_yarn, when the project pins a version that is
   not installed, fetch it before returning it; if the fetch fails the query
   returns the error and no version. *)
C10_PinnedFetchedBeforeReturn ==
    \A p \in Procs :
        (/\ pc[p] = "done"
         /\ op[p] \in {"current_node", "current_yarn"}
         /\ proj[p] = "pinned"
         /\ ver[p] # NoVersion) =>
            /\ res[p].tag # "None"
            /\ res[p].tag = "Some" =>
                  /\ res[p].v = ver[p]
                  /\ ver[p] \in InstalledOf(op[p])
                  /\ ~has[p] => arch[p] # "none"
                  /\ (~has[p] /\ op[p] = "current_node") =>
                        io[p].unpack = 1 /\ io[p].rename = 1

(* C10's case: the pinned node version was not installed, the query fetched it
   and then returned it. *)
C10_Witness ==
    \E p \in Procs :
        /\ Answered(p, "current_node")
        /\ proj[p] = "pinned"
        /\ ~has[p]
        /\ io[p].rename = 1
        /\ res[p] = Result("Some", ver[p])

(* A fetch of a version the invocation's catalog does not hold. *)
FreshFetch(p) == op[p] = "fetch_node" /\ ~has[p]

(* The fetch's own steps that may fail. *)
StepErrors == {"DownloadError", "UnpackError", "RenameError"}

(* C11: a fetch that failed at its download, unpack or rename leaves the catalog
   as it was, and what it left on disk never stands in the way of a later fetch
   of the version: each step of that fetch can succeed, the fetch ends with Now
   unless one of its own steps fails, and a fetch that ends with Now has put the
   whole tree in place and the version in the catalog. *)
C11_RetryAfterFailure ==
    \A p \in Procs :
        FreshFetch(p) =>
            /\ pc[p] = "cached" => cache[ver[p]] = "valid"
            /\ pc[p] = "download" => ENABLED download_ok(p)
            /\ pc[p] = "unpack" => ENABLED unpack_begin(p)
            /\ pc[p] = "unpacking" => ENABLED unpack_ok(p)
            /\ pc[p] = "rename" => ENABLED rename_ok(p)
            /\ pc[p] = "done" => res[p].tag \in StepErrors \cup {"Now"}
            /\ res[p].tag \in StepErrors =>
                   ver[p] \notin nodeInstalled /\ versionDir[ver[p]] = "absent"
            /\ res[p].tag = "Now" =>
                   ver[p] \in nodeInstalled /\ versionDir[ver[p]] = "full"

(* C11's case: the fetch found the tree a failed unpack had left, and installed
   the version all the same. *)
C11_Witness ==
    \E p \in Procs :
        /\ FreshFetch(p)
        /\ found[p] = "partial"
        /\ pc[p] = "done"
        /\ res[p] = Result("Now", ver[p])

(* C12: in_pinned_project is true exactly when the session has a project whose
   manifest has a toolchain section; it is false with no project, and false in a
   project whose manifest has no toolchain section. *)
C12_InPinnedProject ==
    \A p \in Procs :
        Answered(p, "in_pinned_project") =>
            /\ res[p].tag \in {"True", "False"}
            /\ res[p].tag = "True" <=> (proj[p] # "none" /\ manifest.node \in Versions)
            /\ proj[p] = "none" => res[p].tag = "False"
            /\ (proj[p] # "none" /\ manifest = NoToolchain) => res[p].tag = "False"

(* C12's case: asked in a project with a toolchain section, the answer is true. *)
C12_Witness ==
    \E p \in Procs :
        /\ Answered(p, "in_pinned_project")
        /\ proj[p] = "pinned"
        /\ manifest.node \in Versions
        /\ res[p].tag = "True"

(* The versions in the collection that satisfy the invocation's requirement. *)
Satisfying(p, installed) == installed \cap matching[p].matches

(* The pin operation resolved a range that some installed version satisfies. *)
RangeOverInstalled(p, o, installed) ==
    /\ Answered(p, o)
    /\ proj[p] # "none"
    /\ ~matching[p].exact
    /\ Satisfying(p, installed) # {}

(* C13: a range requirement that at least one installed version satisfies
   resolves to the greatest installed version that satisfies it, a function of
   the requirement and the installed set alone; no source outside the catalog is
   consulted. *)
C13_RangeResolvesToMaxInstalled ==
    \A p \in Procs :
        /\ RangeOverInstalled(p, "pin_node_version", nodeInstalled) =>
              /\ ver[p] = Max(Satisfying(p, nodeInstalled))
              /\ res[p] = Result("Ok", ver[p])
              /\ via[p] = "installed"
        /\ RangeOverInstalled(p, "pin_yarn_version", yarnInstalled) =>
              /\ ver[p] = Max(Satisfying(p, yarnInstalled))
              /\ via[p] = "installed"

(* C13's case: of two installed versions only the lower one satisfies the range,
   and the range resolves to it. *)
C13_Witness ==
    \E p \in Procs :
        /\ RangeOverInstalled(p, "pin_node_version", nodeInstalled)
        /\ Max(Satisfying(p, nodeInstalled)) # Max(nodeInstalled)
        /\ res[p] = Result("Ok", Max(Satisfying(p, nodeInstalled)))

(* The invocation is a query of the version a project pins. *)
PinQuery(p) == op[p] \in {"current_node", "current_yarn"} /\ matching[p] # NoSpec

(* C14: an exact spec resolves to its version and neither the plugin nor the
   remote index is consulted, with or without a plugin configured, with the
   version installed or not; the spec the session makes of a project's pin is
   exact. *)
C14_ExactBypass ==
    \A p \in Procs :
        /\ PinQuery(p) => matching[p].exact
        /\ matching[p].exact =>
              /\ via[p] \in {"none", "exact"}
              /\ via[p] = "exact" => matching[p].matches = {ver[p]}
              /\ (PinQuery(p) /\ pc[p] = "done") => res[p].v \in matching[p].matches

(* C14's case: a plugin is configured, the pinned version is not installed, and
   the query resolved its exact spec without the plugin. *)
C14_Witness ==
    \E p \in Procs :
        /\ Answered(p, "current_node")
        /\ PinQuery(p)
        /\ configFile = "plugin"
        /\ config[p] = "plugin"
        /\ ~has[p]
        /\ via[p] = "exact"
        /\ res[p] = Result("Some", ver[p])

(* The invocation's validity test found a valid cache file. *)
CacheHit(p) == seen[p] = "valid"

(* C15: when the cache file of the requested version is valid, provisioning
   transfers nothing over the network, does not rewrite the cache file, and the
   Distro is the Cached one, loaded from that file. *)
C15_CacheHitSkipsNetwork ==
    /\ [](\A p \in Procs :
            CacheHit(p) =>
                /\ io[p].net = 0
                /\ pc[p] # "download"
                /\ arch[p] # "fetched"
                /\ (pc[p] # "cached" /\ res[p].tag # "LoadError") => arch[p] = "cached")
    /\ [][\A p \in Procs :
            (CacheHit(p) /\ pc[p] = "cached" /\ pc'[p] # "cached" /\ cache[ver[p]] = "valid") =>
                /\ pc'[p] = "fetch"
                /\ arch'[p] = "cached"
                /\ cache' = cache]_vars
    /\ [][cache' # cache => \E q \in Procs : pc[q] = "download" /\ ~CacheHit(q)]_vars

(* C15's case: a fetch that found a valid cache file installed the version from
   it without a transfer. *)
C15_Witness ==
    \E p \in Procs :
        /\ CacheHit(p)
        /\ pc[p] = "done"
        /\ res[p] = Result("Now", ver[p])
        /\ arch[p] = "cached"
        /\ io[p].net = 0

(* The positions of NodeDistro::fetch. *)
FetchPositions == {"fetch", "unpack", "unpacking", "rename"}

(* C16: NodeDistro::fetch leaves the installed set and the default as they were,
   whatever its outcome; the installed set changes only when the caller records
   the version after the fetch returned Now; a default changes only by the
   operation that sets it. *)
C16_SingleWriter ==
    [][/\ \A p \in Procs :
            (pc[p] \in FetchPositions /\ pc'[p] # pc[p]) =>
                UNCHANGED <<nodeInstalled, nodeDefault, yarnInstalled, yarnDefault>>
       /\ nodeInstalled' # nodeInstalled =>
            \E p \in Procs :
                /\ pc[p] = "record"
                /\ io[p].rename = 1
                /\ res'[p].tag \in {"Now", "Some"}
                /\ nodeInstalled' = nodeInstalled \cup {ver[p]}
       /\ nodeDefault' # nodeDefault =>
            \E p \in Procs :
                /\ pc[p] = "idle"
                /\ op'[p] = "set_user_node"
                /\ nodeDefault' = ver'[p]
       /\ yarnDefault' # yarnDefault =>
            \E p \in Procs :
                /\ pc[p] = "idle"
                /\ op'[p] = "set_user_yarn"
                /\ yarnDefault' = ver'[p]]_vars

(* C16's case: a fetch installed a version and it was recorded, and the default,
   set before to another version, is as it was. *)
C16_Witness ==
    \E p \in Procs :
        /\ Answered(p, "fetch_node")
        /\ res[p] = Result("Now", ver[p])
        /\ ver[p] \in nodeInstalled
        /\ nodeDefault \in Versions \ {ver[p]}
        /\ nodeDefault \notin nodeInstalled

(* C17: in a project that pins the runtime but not the package manager,
   current_yarn returns the catalog's yarn default, which may be none, and
   fetches nothing; in a project that pins yarn version y it returns y, at once
   when y is installed and after fetching y when it is not (or the fetch's
   error). *)
C17_OptionalYarnPin ==
    [][\A p \in Procs :
          (pc[p] = "idle" /\ op'[p] = "current_yarn" /\ proj'[p] = "pinned") =>
              LET y == manifest.yarn IN
              /\ pc'[p] = "done"
              /\ y = NoVersion =>
                    /\ res'[p] = Option(yarnDefault)
                    /\ arch'[p] = "none"
                    /\ UNCHANGED <<fsVars, catVars>>
              /\ (y # NoVersion /\ y \in yarnInstalled) =>
                    /\ res'[p] = Result("Some", y)
                    /\ arch'[p] = "none"
                    /\ UNCHANGED <<fsVars, catVars>>
              /\ (y # NoVersion /\ y \notin yarnInstalled) =>
                    \/ /\ res'[p] = Result("Some", y)
                       /\ arch'[p] = "fetched"
                       /\ yarnInstalled' = yarnInstalled \cup {y}
                    \/ /\ res'[p].tag = "FetchError"
                       /\ UNCHANGED yarnInstalled]_vars

(* C17's case: the project pins the runtime and not yarn, a yarn default is set,
   and current_yarn returned the default without a fetch. *)
C17_Witness ==
    \E p \in Procs :
        /\ Answered(p, "current_yarn")
        /\ proj[p] = "pinned"
        /\ manifest.node \in Versions
        /\ manifest.yarn = NoVersion
        /\ yarnDefault \in Versions
        /\ res[p] = Result("Some", yarnDefault)
        /\ arch[p] = "none"

(* Invocation p takes the step of pin operation o inside a project. *)
PinStep(p, o) == pc[p] = "idle" /\ op'[p] = o /\ proj'[p] # "none"

(* C18: inside a project a pin operation resolves the requirement first and
   writes the manifest afterwards: when resolution fails the operation returns
   that error and the manifest is as it was; what is written is the resolved
   version, one that satisfies the requirement; the manifest changes only when
   the operation succeeds. *)
C18_PinResolvesThenWrites ==
    [][\A p \in Procs :
          /\ PinStep(p, "pin_node_version") =>
                /\ ver'[p] = NoVersion <=> res'[p].tag = "ResolveError"
                /\ res'[p].tag = "ResolveError" => manifest' = manifest
                /\ res'[p].tag # "ResolveError" =>
                      /\ res'[p] = Result("Ok", ver'[p])
                      /\ ver'[p] \in matching'[p].matches
                      /\ manifest' = [manifest EXCEPT !.node = ver'[p]]
          /\ PinStep(p, "pin_yarn_version") =>
                /\ ver'[p] = NoVersion <=> res'[p].tag = "ResolveError"
                /\ res'[p].tag \in {"ResolveError", "NoPinnedNodeError"} => manifest' = manifest
                /\ res'[p].tag \notin {"ResolveError", "NoPinnedNodeError"} =>
                      /\ res'[p] = Result("Ok", ver'[p])
                      /\ ver'[p] \in matching'[p].matches
                      /\ manifest' = [manifest EXCEPT !.yarn = ver'[p]]]_vars

(* C18's case: a pin whose resolution failed returned the error and left the
   version pinned before in the manifest. *)
C18_Witness ==
    \E p \in Procs :
        /\ Answered(p, "pin_node_version")
        /\ proj[p] = "pinned"
        /\ via[p] \in Strategies
        /\ res[p].tag = "ResolveError"
        /\ manifest.node \in Versions
        /\ manifest.node \notin matching[p].matches

(* The outcomes of current_node that are errors of the fetch of the pinned
   version. *)
FetchErrors == StepErrors \cup {"LoadError"}

(* C20: for the runtime a project pin comes before NOTION_NODE_VERSION, which
   comes before the catalog's default: in a pinned project current_node answers
   with the pin whatever the variable holds; with no pinned project and a version
   in the variable it answers with that version, whatever the default is and
   without fetching it; a value that is no version is an error, not the default.
   current_yarn answers the same whatever the variable holds. *)
C20_ThreeLevelPrecedence ==
    \A p \in Procs :
        /\ (Answered(p, "current_node") /\ proj[p] = "pinned") =>
              /\ res[p].tag \in {"Some"} \cup FetchErrors
              /\ res[p].v = manifest.node
        /\ (Answered(p, "current_node") /\ proj[p] # "pinned" /\ env[p].tag = "Version") =>
              /\ res[p] = Result("Some", env[p].v)
              /\ io[p] = NoIO
              /\ arch[p] = "none"
              /\ config[p] = "unloaded"
        /\ (Answered(p, "current_node") /\ proj[p] # "pinned" /\ env[p].tag = "Unparseable") =>
              res[p] = Result("ParseError", NoVersion)
        /\ (Answered(p, "current_yarn") /\ (proj[p] # "pinned" \/ manifest.yarn = NoVersion)) =>
              res[p] = Option(yarnDefault)
        /\ (Answered(p, "current_yarn") /\ proj[p] = "pinned" /\ manifest.yarn # NoVersion) =>
              /\ res[p].tag \in {"Some", "FetchError"}
              /\ res[p].v = manifest.yarn

(* C20's case: outside a pinned project the variable names a version that is
   neither the default nor installed, and current_node answered with it. *)
C20_Witness ==
    \E p \in Procs :
        /\ Answered(p, "current_node")
        /\ proj[p] # "pinned"
        /\ env[p].tag = "Version"
        /\ nodeDefault \in Versions \ {env[p].v}
        /\ env[p].v \notin nodeInstalled
        /\ res[p] = Result("Some", env[p].v)
        /\ io[p] = NoIO

(* update_toolchain has returned success for a file whose root was a JSON
   object. *)
Rewritten == upd.pc = "returned" /\ upd.res = "Ok" /\ upd.orig.root = "object"

(* C19: update_toolchain on a manifest whose root is a JSON object sets the
   top-level key "toolchain" to the given value, adding the key when it was not
   there, leaves every other top-level key with its value, and writes the
   document with the indentation detected in the file it found; after a success
   the file holds the new toolchain value. *)
C19_RewriteFrame ==
    Rewritten =>
        LET old == from_reader(upd.orig).map
            new == from_reader(packageFile).map
        IN  /\ packageFile.root = "object"
            /\ DOMAIN new = DOMAIN old \cup {"toolchain"}
            /\ new["toolchain"] = to_value(upd.toolchain)
            /\ \A k \in DOMAIN old \ {"toolchain"} : new[k] = old[k]
            /\ detect_indent(packageFile.layout) = detect_indent(upd.orig.layout)

(* C19's case: a file indented by four spaces, with two other keys and no
   toolchain, was rewritten. *)
C19_Witness ==
    /\ Rewritten
    /\ upd.orig.layout = "four"
    /\ Len(upd.orig.entries) = Len(packageFile.entries) - 1
    /\ Len(upd.orig.entries) > 1
    /\ packageFile.layout = "four"

=============================================================================
